---- MODULE Spec2Model ----
(***************************************************************************)
(* A model of MagiDict (src/magidict/_magidict.c): a dict subclass with    *)
(* two provenance flags, a recursive identity-memoised conversion engine   *)
(* (hook / disenchant) and forgiving lookups that answer with protected    *)
(* empty sentinels.                                                        *)
(*                                                                         *)
(* Python objects live on a heap: a sequence of object records, the index  *)
(* of a record being the object's identity (its address).  Objects are     *)
(* never freed, so an identity is never reused.                            *)
(***************************************************************************)
EXTENDS Integers, Sequences, FiniteSets, TLC

VARIABLES heap, ret, last, nops, origin

vars == <<heap, ret, last, nops, origin>>

(***************************************************************************)
(* Bounds of the model.                                                    *)
(***************************************************************************)
\* number of operations performed after the initial state
MaxOps == 2
\* items, over all its objects, of a generated source structure
MaxItems == 3
\* calls one conversion may make before it is reported as not terminating
MaxCalls == 16
\* calls one search may make before it is reported as not terminating
MaxSearchCalls == 8

(***************************************************************************)
(* Keys.  A text key is the sequence of its '.'-free segments ("a.b" is    *)
(* <<"a","b">>), which determines the text and makes strchr(key,'.') and   *)
(* split('.') computable.  An int key beyond the range of a C long is the  *)
(* key BigK.  Tuples and lists of keys carry their elements in e.          *)
(***************************************************************************)
Str(segs) == [t |-> "str", segs |-> segs, n |-> 0, e |-> <<>>]
IntK(i) == [t |-> "int", segs |-> <<>>, n |-> i, e |-> <<>>]
BigK == [t |-> "big", segs |-> <<>>, n |-> 0, e |-> <<>>]
TupK(e) == [t |-> "tuple", segs |-> <<>>, n |-> 0, e |-> e]
ListK(e) == [t |-> "list", segs |-> <<>>, n |-> 0, e |-> e]
NoKey == [t |-> "nokey", segs |-> <<>>, n |-> 0, e |-> <<>>]

KA == Str(<<"a">>)
KB == Str(<<"b">>)
KData == Str(<<"data">>)
KFromNone == Str(<<"_from_none">>)
KFromMissing == Str(<<"_from_missing">>)

(***************************************************************************)
(* Values: NULL (a C null pointer / an unfilled slot), None, small ints,   *)
(* a text value, and references to heap objects.                           *)
(***************************************************************************)
NULL == [t |-> "null", n |-> 0]
None == [t |-> "none", n |-> 0]
IntV(i) == [t |-> "int", n |-> i]
TextV == [t |-> "str", n |-> 0]
BoolV(b) == [t |-> "bool", n |-> IF b THEN 1 ELSE 0]
Ref(a) == [t |-> "ref", n |-> a]

IsRef(v) == v.t = "ref"

(***************************************************************************)
(* Objects.  items is the ordered entry table of a dict / MagiDict (k, v)  *)
(* or the element vector of a list / tuple (k = NoKey).  The two flags are *)
(* the extra fields of MagiDictObject.                                     *)
(*                                                                         *)
(* raw marks a MagiDict obtained from MagiDictType.tp_alloc alone (lines   *)
(* 50 and 90).  tp_alloc zero-fills the object and nothing runs dict's     *)
(* tp_new, which is what installs the entry table (ma_keys): the object    *)
(* has length 0 and a null table pointer.  len(), bool() and repr() read   *)
(* the length only; PyDict_GetItem, PyDict_Contains, PyDict_SetItem,       *)
(* PyDict_DelItem, PyDict_Next and PyDict_GetItemString dereference the    *)
(* table pointer, and the process ends in a memory fault.  PyDict_Copy and *)
(* PyDict_Update return early on a source of length 0.                     *)
(***************************************************************************)
Obj(kind, items, fn, fm) ==
    [kind |-> kind, items |-> items, from_none |-> fn, from_missing |-> fm, raw |-> FALSE]
\* MagiDictType.tp_alloc(&MagiDictType, 0) with the two flags assigned
RawMagiDict(fn, fm) ==
    [kind |-> "magi", items |-> <<>>, from_none |-> fn, from_missing |-> fm, raw |-> TRUE]
Entry(k, v) == [k |-> k, v |-> v]
Elem(v) == [k |-> NoKey, v |-> v]

KindOf(h, v) == IF IsRef(v) THEN h[v.n].kind ELSE v.t

\* PyObject_TypeCheck(item, &MagiDictType)
IsMagi(h, v) == KindOf(h, v) = "magi"
\* PyDict_Check(item): true of dict and of its subclass MagiDict
PyDict_Check(h, v) == KindOf(h, v) \in {"dict", "magi"}
PyList_Check(h, v) == KindOf(h, v) = "list"
\* PyTuple_Check(item): true of tuple and of its subclasses; "namedtuple" is a
\* type made by collections.namedtuple, its field labels being part of the type
PyTuple_Check(h, v) == KindOf(h, v) \in {"tuple", "namedtuple"}
\* PySequence_Check(obj) && !PyUnicode_Check(obj) && !PyBytes_Check(obj)
IsNonTextSequence(h, v) == KindOf(h, v) \in {"list", "tuple", "namedtuple"}

\* the entry table of the dict at a was never installed
NullTable(h, a) == h[a].raw

Alloc(h, o) == Append(h, o)
SetObjItems(h, a, items) == [h EXCEPT ![a].items = items]

(***************************************************************************)
(* The dict primitives of the C API used by the source.                    *)
(***************************************************************************)
KeyIndex(items, k) ==
    IF \E i \in 1..Len(items) : items[i].k = k
    THEN CHOOSE i \in 1..Len(items) : items[i].k = k
    ELSE 0

\* PyDict_GetItem: the stored value or NULL
PyDict_GetItem(h, a, k) ==
    LET i == KeyIndex(h[a].items, k) IN IF i = 0 THEN NULL ELSE h[a].items[i].v

PyDict_Contains(h, a, k) == KeyIndex(h[a].items, k) # 0

\* PyDict_SetItem: an existing key keeps its place, a new key goes last
DictItemsSet(items, k, v) ==
    LET i == KeyIndex(items, k) IN
    IF i = 0 THEN Append(items, Entry(k, v))
    ELSE [items EXCEPT ![i] = Entry(k, v)]

PyDict_SetItem(h, a, k, v) == SetObjItems(h, a, DictItemsSet(h[a].items, k, v))

RemoveAt(s, i) == SubSeq(s, 1, i - 1) \o SubSeq(s, i + 1, Len(s))

\* PyDict_DelItem on a present key
PyDict_DelItem(h, a, k) ==
    SetObjItems(h, a, RemoveAt(h[a].items, KeyIndex(h[a].items, k)))

(***************************************************************************)
(* The identity memo of one conversion: pairs <<address, converted value>>.*)
(* A conversion state cs carries the heap, the memo, the number of calls   *)
(* made so far, whether the call budget was exhausted and whether a null   *)
(* entry table was dereferenced.                                           *)
(***************************************************************************)
MemoGet(memo, a) ==
    IF \E p \in memo : p[1] = a
    THEN (CHOOSE p \in memo : p[1] = a)[2]
    ELSE NULL

MemoSet(memo, a, v) == {p \in memo : p[1] # a} \cup {<<a, v>>}

\* line 81: a MagiDict is memoised to itself
MemoMagi(memo, a, v) == MemoSet(memo, a, v)
\* line 99: a dict is memoised to its new MagiDict before its entries are hooked
MemoDict(memo, a, v) == MemoSet(memo, a, v)
\* line 131: a list is memoised to itself before its elements are hooked
MemoList(memo, a, v) == MemoSet(memo, a, v)

ConvState(h, memo) ==
    [h |-> h, memo |-> memo, calls |-> 0, over |-> FALSE, fault |-> FALSE]
Res(cs, v) == [cs |-> cs, ret |-> v]
\* the conversion ends in a memory fault
Fault(cs) == Res([cs EXCEPT !.fault = TRUE], NULL)

\* PyList_New(n) / PyTuple_New(n): n unfilled slots
RECURSIVE NullSlots(_)
NullSlots(n) == IF n = 0 THEN <<>> ELSE Append(NullSlots(n - 1), Elem(NULL))

\* PyList_SetItem / PyTuple_SetItem
SeqSetItem(h, a, i, v) == [h EXCEPT ![a].items[i] = Elem(v)]

RECURSIVE magidict_hook_with_memo(_, _)
RECURSIVE HookDictLoop(_, _, _, _)
RECURSIVE HookListLoop(_, _, _, _)
RECURSIVE HookTupleLoop(_, _, _, _)

\* lines 104-122: hook every value of the source dict into the new MagiDict
HookDictLoop(cs, src, new, pos) ==
    IF pos > Len(cs.h[src].items) THEN Res(cs, Ref(new))
    ELSE LET e == cs.h[src].items[pos]
             r == magidict_hook_with_memo(cs, e.v)
         IN IF r.ret = NULL THEN r
            ELSE IF NullTable(r.cs.h, new) THEN Fault(r.cs)
            ELSE HookDictLoop([r.cs EXCEPT !.h = PyDict_SetItem(@, new, e.k, r.ret)],
                              src, new, pos + 1)

\* lines 134-144: replace every element of the list by its hooked version
HookListLoop(cs, lst, size, i) ==
    IF i > size THEN Res(cs, Ref(lst))
    ELSE LET r == magidict_hook_with_memo(cs, cs.h[lst].items[i].v)
         IN IF r.ret = NULL THEN r
            ELSE HookListLoop([r.cs EXCEPT !.h = SeqSetItem(@, lst, i, r.ret)],
                              lst, size, i + 1)

\* lines 162-173: fill the new tuple with the hooked elements
HookTupleLoop(cs, src, new, i) ==
    IF i > Len(cs.h[src].items) THEN Res(cs, Ref(new))
    ELSE LET r == magidict_hook_with_memo(cs, cs.h[src].items[i].v)
         IN IF r.ret = NULL THEN r
            ELSE HookTupleLoop([r.cs EXCEPT !.h = SeqSetItem(@, new, i, r.ret)],
                               src, new, i + 1)

magidict_hook_with_memo(cs0, item) ==
    LET cs == [cs0 EXCEPT !.calls = @ + 1]
        new == Len(cs0.h) + 1
    IN
    IF item = NULL THEN Res(cs0, NULL)
    ELSE IF cs0.calls >= MaxCalls THEN Res([cs0 EXCEPT !.over = TRUE], NULL)
    ELSE IF ~IsRef(item) THEN Res(cs, item)
    ELSE IF MemoGet(cs.memo, item.n) # NULL THEN Res(cs, MemoGet(cs.memo, item.n))
    ELSE IF IsMagi(cs.h, item)
    THEN Res([cs EXCEPT !.memo = MemoMagi(@, item.n, item)], item)
    ELSE IF PyDict_Check(cs.h, item)
    THEN HookDictLoop([cs EXCEPT !.h = Alloc(@, RawMagiDict(FALSE, FALSE)),
                                 !.memo = MemoDict(@, item.n, Ref(new))],
                      item.n, new, 1)
    ELSE IF PyList_Check(cs.h, item)
    THEN HookListLoop([cs EXCEPT !.memo = MemoList(@, item.n, item)],
                      item.n, Len(cs.h[item.n].items), 1)
    ELSE IF PyTuple_Check(cs.h, item)
    THEN HookTupleLoop([cs EXCEPT !.h = Alloc(@, Obj("tuple",
                                      NullSlots(Len(cs.h[item.n].items)), FALSE, FALSE))],
                       item.n, new, 1)
    ELSE Res(cs, item)

(***************************************************************************)
(* Results of an operation: a returned value, or a raised exception.       *)
(* pending names an exception left set although a value is returned.       *)
(***************************************************************************)
Returned(v) == [val |-> v, key |-> NoKey, exc |-> "", pending |-> ""]
Raised(e) == [val |-> NULL, key |-> NoKey, exc |-> e, pending |-> ""]
ReturnedPending(v, e) == [val |-> v, key |-> NoKey, exc |-> "", pending |-> e]
\* a (key, value) pair, as popitem returns it
ReturnedPair(k, v) == [val |-> v, key |-> k, exc |-> "", pending |-> ""]

\* the outcome of an operation: the heap it leaves and its result
Out(h, r) == [h |-> h, r |-> r]

\* a conversion that exhausted its call budget never returns
Diverged == Raised("NoReturn")
\* a null entry table was dereferenced: the process is gone, nothing is
\* returned and nothing is raised
Faulted == Raised("Fault")
\* the outcome of a conversion that returned NULL
Failed(cs) == IF cs.fault THEN Faulted ELSE Diverged

\* PyDict_Update(input_dict, arg) on entry tables
RECURSIVE DictItemsUpdate(_, _)
DictItemsUpdate(items, more) ==
    IF more = <<>> THEN items
    ELSE DictItemsUpdate(DictItemsSet(items, Head(more).k, Head(more).v), Tail(more))

\* lines 254-272 (and 1351-1361): hook each value of src into self, one memo
RECURSIVE HookInto(_, _, _, _)
HookInto(cs, src, self, pos) ==
    IF NullTable(cs.h, src) THEN Fault(cs)
    ELSE IF pos > Len(cs.h[src].items) THEN Res(cs, Ref(self))
    ELSE LET e == cs.h[src].items[pos]
             r == magidict_hook_with_memo(cs, e.v)
         IN IF r.ret = NULL THEN r
            ELSE IF NullTable(r.cs.h, self) THEN Fault(r.cs)
            ELSE HookInto([r.cs EXCEPT !.h = PyDict_SetItem(@, self, e.k, r.ret)],
                          src, self, pos + 1)

\* line 247: the input dict is memoised to the MagiDict under construction
MemoSelf(memo, a, v) == MemoSet(memo, a, v)

(***************************************************************************)
(* magidict_init(self, args, kwds): args is the sequence of positional     *)
(* arguments, kwds the entry table of the named ones.                      *)
(***************************************************************************)
magidict_init(h, self, args, kwds) ==
    LET h0 == [h EXCEPT ![self].from_none = FALSE, ![self].from_missing = FALSE]
        direct == Len(args) = 1 /\ kwds = <<>> /\ PyDict_Check(h0, args[1])
        fromArg == IF Len(args) > 0 /\ PyDict_Check(h0, args[1])
                   THEN h0[args[1].n].items ELSE <<>>
        tmp == Len(h0) + 1
        h1 == IF direct THEN h0
              ELSE Alloc(h0, Obj("dict", DictItemsUpdate(DictItemsUpdate(<<>>, fromArg), kwds),
                                 FALSE, FALSE))
        input_dict == IF direct THEN args[1].n ELSE tmp
        cs == ConvState(h1, MemoSelf({}, input_dict, Ref(self)))
        r == HookInto(cs, input_dict, self, 1)
    IN IF r.ret = NULL THEN Out(r.cs.h, Failed(r.cs))
       ELSE Out(r.cs.h, Returned(None))

\* magidict_new followed by magidict_init: MagiDict(*args, **kwds)
MagiDictCall(h, args, kwds) ==
    LET self == Len(h) + 1
        o == magidict_init(Alloc(h, Obj("magi", <<>>, FALSE, FALSE)), self, args, kwds)
    IN IF o.r.exc # "" THEN o ELSE Out(o.h, Returned(Ref(self)))

(***************************************************************************)
(* Protection and the sentinel factory.                                    *)
(***************************************************************************)
magidict_is_protected(h, self) == h[self].from_none \/ h[self].from_missing

\* TRUE when the TypeError "Cannot modify NoneType or missing keys." is set
magidict_raise_if_protected(h, self) == magidict_is_protected(h, self)

magidict_create_protected(h, from_none, from_missing) ==
    Out(Alloc(h, RawMagiDict(from_none, from_missing)), Returned(Ref(Len(h) + 1)))

(***************************************************************************)
(* Mutation primitives.                                                    *)
(***************************************************************************)
magidict_delitem(h, self, key) ==
    IF magidict_raise_if_protected(h, self) THEN Out(h, Raised("TypeError"))
    ELSE IF NullTable(h, self) THEN Out(h, Faulted)
    ELSE IF ~PyDict_Contains(h, self, key) THEN Out(h, Raised("KeyError"))
    ELSE Out(PyDict_DelItem(h, self, key), Returned(None))

\* value = NULL is the call the interpreter makes for "del self[key]"
magidict_setitem(h, self, key, value) ==
    IF magidict_raise_if_protected(h, self) THEN Out(h, Raised("TypeError"))
    ELSE IF value = NULL THEN magidict_delitem(h, self, key)
    ELSE LET r == magidict_hook_with_memo(ConvState(h, {}), value)
         IN IF r.ret = NULL THEN Out(r.cs.h, Failed(r.cs))
            ELSE IF NullTable(r.cs.h, self) THEN Out(r.cs.h, Faulted)
            ELSE Out(PyDict_SetItem(r.cs.h, self, key, r.ret), Returned(None))

\* lines 893-899 and 907-913: one magidict_setitem per entry, in order
RECURSIVE SetItemsLoop(_, _, _)
SetItemsLoop(h, self, entries) ==
    IF entries = <<>> THEN Out(h, Returned(None))
    ELSE LET o == magidict_setitem(h, self, Head(entries).k, Head(entries).v)
         IN IF o.r.exc # "" THEN o ELSE SetItemsLoop(o.h, self, Tail(entries))

\* lines 893-899 iterate the live dict `other`
RECURSIVE UpdateFromDict(_, _, _, _)
UpdateFromDict(h, self, other, pos) ==
    IF NullTable(h, other) THEN Out(h, Faulted)
    ELSE IF pos > Len(h[other].items) THEN Out(h, Returned(None))
    ELSE LET e == h[other].items[pos]
             o == magidict_setitem(h, self, e.k, e.v)
         IN IF o.r.exc # "" THEN o ELSE UpdateFromDict(o.h, self, other, pos + 1)

magidict_update(h, self, args, kwds) ==
    IF magidict_raise_if_protected(h, self) THEN Out(h, Raised("TypeError"))
    ELSE LET o1 == IF Len(args) > 0 /\ PyDict_Check(h, args[1])
                   THEN UpdateFromDict(h, self, args[1].n, 1)
                   ELSE Out(h, Returned(None))
         IN IF o1.r.exc # "" THEN o1 ELSE SetItemsLoop(o1.h, self, kwds)

\* PyArg_ParseTuple(args, "O|O"): dflt = NULL when no default is passed
magidict_setdefault(h, self, key, dflt) ==
    IF magidict_raise_if_protected(h, self) THEN Out(h, Raised("TypeError"))
    ELSE IF NullTable(h, self) THEN Out(h, Faulted)
    ELSE LET default_value == IF dflt = NULL THEN None ELSE dflt
         IN IF PyDict_Contains(h, self, key)
            THEN Out(h, Returned(PyDict_GetItem(h, self, key)))
            ELSE LET r == magidict_hook_with_memo(ConvState(h, {}), default_value)
                 IN IF r.ret = NULL THEN Out(r.cs.h, Failed(r.cs))
                    ELSE Out(PyDict_SetItem(r.cs.h, self, key, r.ret), Returned(r.ret))

\* a scalar value as a member of a key tuple
ValueAsKey(v) == [t |-> v.t, segs |-> <<>>, n |-> v.n, e |-> <<>>]

\* the argument tuple (key,) or (key, default) of a call, as a key
ArgsKey(key, dflt) ==
    IF dflt = NULL THEN TupK(<<key>>) ELSE TupK(<<key, ValueAsKey(dflt)>>)

\* PyDict_Type.tp_methods[0] is dict.__contains__ (the first entry of
\* CPython's mapp_methods): called with (self, args) it answers whether the
\* argument tuple itself is a key of self; a tuple holding a list or a dict
\* cannot be hashed.
DictMethod0(h, self, key, dflt) ==
    IF NullTable(h, self) THEN Out(h, Faulted)
    ELSE IF IsRef(dflt) /\ ~PyTuple_Check(h, dflt) THEN Out(h, Raised("TypeError"))
    ELSE Out(h, Returned(BoolV(PyDict_Contains(h, self, ArgsKey(key, dflt)))))

\* dflt = NULL when pop is called with the key alone
magidict_pop(h, self, key, dflt) ==
    IF magidict_raise_if_protected(h, self) THEN Out(h, Raised("TypeError"))
    ELSE DictMethod0(h, self, key, dflt)

\* the pair is the first entry of the table (PyDict_Next from pos 0)
magidict_popitem(h, self) ==
    IF magidict_raise_if_protected(h, self) THEN Out(h, Raised("TypeError"))
    ELSE IF NullTable(h, self) THEN Out(h, Faulted)
    ELSE IF h[self].items = <<>> THEN Out(h, Raised("KeyError"))
    ELSE LET e == h[self].items[1]
         IN Out(PyDict_DelItem(h, self, e.k), ReturnedPair(e.k, e.v))

magidict_clear(h, self) ==
    IF magidict_raise_if_protected(h, self) THEN Out(h, Raised("TypeError"))
    ELSE IF NullTable(h, self) THEN Out(h, Faulted)
    ELSE Out(SetObjItems(h, self, <<>>), Returned(None))

(***************************************************************************)
(* Lookups.                                                                *)
(***************************************************************************)
\* the decimal numerals among the text segments of the model
Numerals == {"0", "1", "-1", "7"}
NumeralValue(seg) ==
    CASE seg = "0" -> 0 [] seg = "1" -> 1 [] seg = "-1" -> -1 [] OTHER -> 7
\* a decimal numeral whose value does not fit a C long
BigNumeral == "9223372036854775808"

\* PyNumber_Long(k): ok = FALSE when k has no integer value; big when the
\* value does not fit a C long
PyNumber_Long(k) ==
    CASE k.t = "int" -> [ok |-> TRUE, big |-> FALSE, n |-> k.n]
      [] k.t = "big" -> [ok |-> TRUE, big |-> TRUE, n |-> 0]
      [] k.t = "str" /\ Len(k.segs) = 1 /\ k.segs[1] \in Numerals ->
             [ok |-> TRUE, big |-> FALSE, n |-> NumeralValue(k.segs[1])]
      [] k.t = "str" /\ Len(k.segs) = 1 /\ k.segs[1] = BigNumeral ->
             [ok |-> TRUE, big |-> TRUE, n |-> 0]
      [] OTHER -> [ok |-> FALSE, big |-> FALSE, n |-> 0]

\* PyLong_AsLong(index): -1 with OverflowError set when index does not fit
PyLong_AsLong(index) ==
    IF index.big THEN [idx |-> -1, err |-> "OverflowError"]
    ELSE [idx |-> index.n, err |-> ""]

\* PySequence_GetItem(obj, idx): a negative idx counts from the end; NULL
\* (IndexError) when out of range
PySequence_GetItem(h, a, idx) ==
    LET n == Len(h[a].items)
        i == IF idx < 0 THEN idx + n ELSE idx
    IN IF i >= 0 /\ i < n THEN h[a].items[i + 1].v ELSE NULL

\* the sentinel a walk answers with; an exception left set stays set
MissingPending(h, pending) ==
    LET o == magidict_create_protected(h, FALSE, TRUE)
    IN Out(o.h, ReturnedPending(o.r.val, pending))

\* lines 319-382: walk the sub-keys ks from obj; pending is the exception
\* that an unchecked PyLong_AsLong left set
RECURSIVE PathWalk(_, _, _, _, _)
PathWalk(h, obj, ks, i, pending) ==
    IF i > Len(ks)
    THEN IF obj = None
         THEN LET o == magidict_create_protected(h, TRUE, FALSE)
              IN Out(o.h, ReturnedPending(o.r.val, pending))
         ELSE Out(h, ReturnedPending(obj, pending))
    ELSE LET k == ks[i] IN
         IF PyDict_Check(h, obj)
         THEN LET next == PyDict_GetItem(h, obj.n, k)
              IN IF NullTable(h, obj.n) THEN Out(h, Faulted)
                 ELSE IF next = NULL THEN MissingPending(h, pending)
                 ELSE PathWalk(h, next, ks, i + 1, pending)
         ELSE IF IsNonTextSequence(h, obj)
         THEN LET index == PyNumber_Long(k)
                  c == PyLong_AsLong(index)
                  next == PySequence_GetItem(h, obj.n, c.idx)
              IN IF ~index.ok THEN MissingPending(h, "")
                 ELSE IF next = NULL THEN MissingPending(h, "")
                 ELSE PathWalk(h, next, ks, i + 1,
                               IF c.err # "" THEN c.err ELSE pending)
         ELSE MissingPending(h, pending)

\* lines 419-471: walk the segments of a dotted text key, KeyError on failure
RECURSIVE DottedWalk(_, _, _, _, _)
DottedWalk(h, obj, segs, i, pending) ==
    IF i > Len(segs) THEN Out(h, ReturnedPending(obj, pending))
    ELSE LET k == Str(<<segs[i]>>) IN
         IF PyDict_Check(h, obj)
         THEN LET next == PyDict_GetItem(h, obj.n, k)
              IN IF NullTable(h, obj.n) THEN Out(h, Faulted)
                 ELSE IF next = NULL THEN Out(h, Raised("KeyError"))
                 ELSE DottedWalk(h, next, segs, i + 1, pending)
         ELSE IF IsNonTextSequence(h, obj)
         THEN LET index == PyNumber_Long(k)
                  c == PyLong_AsLong(index)
                  next == PySequence_GetItem(h, obj.n, c.idx)
              IN IF ~index.ok THEN Out(h, Raised("KeyError"))
                 ELSE IF next = NULL THEN Out(h, Raised("KeyError"))
                 ELSE DottedWalk(h, next, segs, i + 1,
                                 IF c.err # "" THEN c.err ELSE pending)
         ELSE Out(h, Raised("KeyError"))

magidict_getitem(h, self, key) ==
    IF key.t \in {"list", "tuple"}
    THEN IF key.t = "tuple" /\ NullTable(h, self) THEN Out(h, Faulted)
         ELSE IF key.t = "tuple" /\ PyDict_Contains(h, self, key)
         THEN Out(h, Returned(PyDict_GetItem(h, self, key)))
         ELSE PathWalk(h, Ref(self), key.e, 1, "")
    ELSE IF NullTable(h, self) THEN Out(h, Faulted)
    ELSE IF PyDict_GetItem(h, self, key) # NULL
    THEN Out(h, Returned(PyDict_GetItem(h, self, key)))
    ELSE IF key.t = "str" /\ Len(key.segs) > 1
    THEN DottedWalk(h, Ref(self), key.segs, 1, "")
    ELSE Out(h, Raised("KeyError"))

\* dflt = NULL when mget is called with the key alone (default = _MISSING).
\* The sentinel made for an omitted default is released again unless it is
\* the value returned, so it reaches the heap only in that case.
magidict_mget(h, self, key, dflt) ==
    IF NullTable(h, self) THEN Out(h, Faulted)
    ELSE IF PyDict_Contains(h, self, key)
    THEN LET value == PyDict_GetItem(h, self, key)
         IN IF value = None /\ dflt # None
            THEN magidict_create_protected(h, TRUE, FALSE)
            ELSE Out(h, Returned(value))
    ELSE IF dflt = NULL THEN magidict_create_protected(h, FALSE, TRUE)
    ELSE Out(h, Returned(dflt))

magidict_strict_get(h, self, key) ==
    IF NullTable(h, self) THEN Out(h, Faulted)
    ELSE IF PyDict_GetItem(h, self, key) = NULL THEN Out(h, Raised("KeyError"))
    ELSE Out(h, Returned(PyDict_GetItem(h, self, key)))

(***************************************************************************)
(* Attributes.  An attribute name is a text key.  The members found on the *)
(* type (magidict_methods, and what dict and object contribute) are values *)
(* of their own, numbered by their place in MemberNames.                   *)
(***************************************************************************)
MemberNames == << "mget", "pop", "update", "setdefault", "popitem", "clear", "copy",
                  "disenchant", "search_key", "search_keys", "filter",
                  "__getstate__", "__setstate__", "keys", "__class__",
                  "__deepcopy__" >>
IsMember(name) ==
    name.t = "str" /\ Len(name.segs) = 1
        /\ \E i \in 1..Len(MemberNames) : MemberNames[i] = name.segs[1]
MemberV(name) ==
    [t |-> "member", n |-> CHOOSE i \in 1..Len(MemberNames) : MemberNames[i] = name.segs[1]]

\* PyObject_GenericGetAttr(self, name): the member of the type, or NULL with
\* AttributeError set (an instance has no attribute dictionary)
PyObject_GenericGetAttr(name) == IF IsMember(name) THEN MemberV(name) ELSE NULL

magidict_getattro(h, self, name) ==
    IF name = KFromNone THEN Out(h, Returned(BoolV(h[self].from_none)))
    ELSE IF name = KFromMissing THEN Out(h, Returned(BoolV(h[self].from_missing)))
    ELSE IF NullTable(h, self) THEN Out(h, Faulted)
    ELSE IF PyDict_Contains(h, self, name)
    THEN LET value == PyDict_GetItem(h, self, name)
         IN IF value = None THEN magidict_create_protected(h, TRUE, FALSE)
            ELSE IF PyDict_Check(h, value) /\ ~IsMagi(h, value)
            THEN LET r == magidict_hook_with_memo(ConvState(h, {}), value)
                 IN IF r.ret = NULL THEN Out(r.cs.h, Failed(r.cs))
                    ELSE Out(PyDict_SetItem(r.cs.h, self, name, r.ret), Returned(r.ret))
            ELSE Out(h, Returned(value))
    ELSE IF PyObject_GenericGetAttr(name) # NULL
    THEN Out(h, Returned(PyObject_GenericGetAttr(name)))
    ELSE magidict_create_protected(h, FALSE, TRUE)

\* an attribute assignment that stores the value under the key `name`
SetAttrStoresKey(h, self, name, value) ==
    IF magidict_is_protected(h, self) \/ NullTable(h, self) THEN Out(h, Raised("TypeError"))
    ELSE Out(PyDict_SetItem(h, self, name, value), Returned(None))

\* MagiDictType sets neither tp_setattro nor tp_dictoffset: assignment goes
\* to the slot inherited from dict, PyObject_GenericSetAttr, and an instance
\* has no attribute dictionary.  A method is no data descriptor ("attribute
\* is read-only"), __class__ refuses a static type (TypeError), any other
\* name is "no attribute".
PyObject_GenericSetAttr(h, self, name, value) ==
    IF name = Str(<<"__class__">>) THEN Out(h, Raised("TypeError"))
    ELSE Out(h, Raised("AttributeError"))

(***************************************************************************)
(* search_keys and search_key.  A search reads the heap and changes        *)
(* nothing; its state st counts the calls made (a search that exhausts     *)
(* the call budget is one that never returns) and records a dereferenced   *)
(* null entry table; search_keys carries the list of results in it.        *)
(***************************************************************************)
SearchState == [res |-> <<>>, calls |-> 0, over |-> FALSE, fault |-> FALSE]
SearchEnded(st) == st.over \/ st.fault

RECURSIVE magidict_search_keys_recursive(_, _, _, _)
RECURSIVE SearchKeysDictLoop(_, _, _, _, _)
RECURSIVE SearchKeysSeqLoop(_, _, _, _, _)

\* lines 1183-1194: only the mappings among the items are searched
SearchKeysSeqLoop(h, seq, key, i, st) ==
    IF SearchEnded(st) \/ i > Len(h[seq].items) THEN st
    ELSE LET item == h[seq].items[i].v
         IN SearchKeysSeqLoop(h, seq, key, i + 1,
                IF PyDict_Check(h, item)
                THEN magidict_search_keys_recursive(h, item, key, st)
                ELSE st)

\* lines 1168-1196
SearchKeysDictLoop(h, obj, key, pos, st) ==
    IF SearchEnded(st) \/ pos > Len(h[obj].items) THEN st
    ELSE LET e == h[obj].items[pos]
             st1 == IF e.k = key THEN [st EXCEPT !.res = Append(@, e.v)] ELSE st
         IN SearchKeysDictLoop(h, obj, key, pos + 1,
                IF PyDict_Check(h, e.v)
                THEN magidict_search_keys_recursive(h, e.v, key, st1)
                ELSE IF IsNonTextSequence(h, e.v)
                THEN SearchKeysSeqLoop(h, e.v.n, key, 1, st1)
                ELSE st1)

magidict_search_keys_recursive(h, obj, key, st) ==
    IF st.calls >= MaxSearchCalls THEN [st EXCEPT !.over = TRUE]
    ELSE IF ~PyDict_Check(h, obj) THEN st
    ELSE IF NullTable(h, obj.n) THEN [st EXCEPT !.fault = TRUE]
    ELSE SearchKeysDictLoop(h, obj.n, key, 1, [st EXCEPT !.calls = @ + 1])

\* the outcome of a search that did not return
SearchFailed(st) == IF st.fault THEN Faulted ELSE Diverged

RECURSIVE Elems(_)
Elems(vals) == IF vals = <<>> THEN <<>> ELSE <<Elem(Head(vals))>> \o Elems(Tail(vals))

magidict_search_keys(h, self, key) ==
    LET st == magidict_search_keys_recursive(h, Ref(self), key, SearchState)
    IN IF SearchEnded(st) THEN Out(h, SearchFailed(st))
       ELSE Out(Alloc(h, Obj("list", Elems(st.res), FALSE, FALSE)),
                Returned(Ref(Len(h) + 1)))

\* a search_key step: the state and the value returned (NULL: the loop over
\* a sequence found nothing and the enclosing loop goes on)
Found(st, v) == [st |-> st, ret |-> v]

RECURSIVE magidict_search_key_recursive(_, _, _, _, _)
RECURSIVE SearchKeyDictLoop(_, _, _, _, _, _)
RECURSIVE SearchKeySeqLoop(_, _, _, _, _, _)

\* lines 1118-1138: a result that is the default object counts as no result
SearchKeySeqLoop(h, seq, key, default_val, i, st) ==
    IF SearchEnded(st) \/ i > Len(h[seq].items) THEN Found(st, NULL)
    ELSE LET item == h[seq].items[i].v
         IN IF PyDict_Check(h, item)
            THEN LET r == magidict_search_key_recursive(h, item, key, default_val, st)
                 IN IF SearchEnded(r.st) \/ r.ret # default_val THEN r
                    ELSE SearchKeySeqLoop(h, seq, key, default_val, i + 1, r.st)
            ELSE SearchKeySeqLoop(h, seq, key, default_val, i + 1, st)

\* lines 1095-1140
SearchKeyDictLoop(h, obj, key, default_val, pos, st) ==
    IF SearchEnded(st) \/ pos > Len(h[obj].items) THEN Found(st, default_val)
    ELSE LET e == h[obj].items[pos]
         IN IF e.k = key THEN Found(st, e.v)
            ELSE IF PyDict_Check(h, e.v)
            THEN LET r == magidict_search_key_recursive(h, e.v, key, default_val, st)
                 IN IF SearchEnded(r.st) \/ r.ret # default_val THEN r
                    ELSE SearchKeyDictLoop(h, obj, key, default_val, pos + 1, r.st)
            ELSE IF IsNonTextSequence(h, e.v)
            THEN LET r == SearchKeySeqLoop(h, e.v.n, key, default_val, 1, st)
                 IN IF SearchEnded(r.st) \/ r.ret # NULL THEN r
                    ELSE SearchKeyDictLoop(h, obj, key, default_val, pos + 1, r.st)
            ELSE SearchKeyDictLoop(h, obj, key, default_val, pos + 1, st)

magidict_search_key_recursive(h, obj, key, default_val, st) ==
    IF st.calls >= MaxSearchCalls THEN Found([st EXCEPT !.over = TRUE], default_val)
    ELSE IF ~PyDict_Check(h, obj) THEN Found(st, default_val)
    ELSE IF NullTable(h, obj.n) THEN Found([st EXCEPT !.fault = TRUE], default_val)
    ELSE SearchKeyDictLoop(h, obj.n, key, default_val, 1, [st EXCEPT !.calls = @ + 1])

\* PyArg_ParseTuple(args, "O|O"): dflt = NULL when no default is passed
magidict_search_key(h, self, key, dflt) ==
    LET default_val == IF dflt = NULL THEN None ELSE dflt
        r == magidict_search_key_recursive(h, Ref(self), key, default_val, SearchState)
    IN IF SearchEnded(r.st) THEN Out(h, SearchFailed(r.st))
       ELSE Out(h, Returned(r.ret))

(***************************************************************************)
(* disenchant: MagiDict trees back to plain dicts.  Keys of the model are  *)
(* immutable scalars, which disenchant returns unchanged (line 856).       *)
(***************************************************************************)
\* line 723: a mapping is memoised to its new dict before its entries
MemoPlain(memo, a, v) == MemoSet(memo, a, v)
\* line 764: a list is memoised to its new list before its elements
MemoNewList(memo, a, v) == MemoSet(memo, a, v)

RECURSIVE magidict_disenchant_recursive(_, _)
RECURSIVE DisDictLoop(_, _, _, _)
RECURSIVE DisSeqLoop(_, _, _, _)

\* lines 728-748
DisDictLoop(cs, src, new, pos) ==
    IF NullTable(cs.h, src) THEN Fault(cs)
    ELSE IF pos > Len(cs.h[src].items) THEN Res(cs, Ref(new))
    ELSE LET e == cs.h[src].items[pos]
             r == magidict_disenchant_recursive(cs, e.v)
         IN IF r.ret = NULL THEN r
            ELSE DisDictLoop([r.cs EXCEPT !.h = PyDict_SetItem(@, new, e.k, r.ret)],
                             src, new, pos + 1)

\* lines 766-777 and 793-804: size is read before the loop
DisSeqLoop(cs, src, new, i) ==
    IF i > Len(cs.h[new].items) THEN Res(cs, Ref(new))
    ELSE LET r == magidict_disenchant_recursive(cs, cs.h[src].items[i].v)
         IN IF r.ret = NULL THEN r
            ELSE DisSeqLoop([r.cs EXCEPT !.h = SeqSetItem(@, new, i, r.ret)],
                            src, new, i + 1)

magidict_disenchant_recursive(cs0, item) ==
    LET cs == [cs0 EXCEPT !.calls = @ + 1]
        new == Len(cs0.h) + 1
    IN
    IF cs0.calls >= MaxCalls THEN Res([cs0 EXCEPT !.over = TRUE], NULL)
    ELSE IF ~IsRef(item) THEN Res(cs, item)
    ELSE IF MemoGet(cs.memo, item.n) # NULL THEN Res(cs, MemoGet(cs.memo, item.n))
    ELSE IF IsMagi(cs.h, item) \/ PyDict_Check(cs.h, item)
    THEN DisDictLoop([cs EXCEPT !.h = Alloc(@, Obj("dict", <<>>, FALSE, FALSE)),
                                !.memo = MemoPlain(@, item.n, Ref(new))],
                     item.n, new, 1)
    ELSE IF PyList_Check(cs.h, item)
    THEN DisSeqLoop([cs EXCEPT !.h = Alloc(@, Obj("list",
                                    NullSlots(Len(cs.h[item.n].items)), FALSE, FALSE)),
                               !.memo = MemoNewList(@, item.n, Ref(new))],
                    item.n, new, 1)
    ELSE IF PyTuple_Check(cs.h, item)
    THEN DisSeqLoop([cs EXCEPT !.h = Alloc(@, Obj("tuple",
                                    NullSlots(Len(cs.h[item.n].items)), FALSE, FALSE))],
                    item.n, new, 1)
    ELSE Res(cs, item)

magidict_disenchant(h, self) ==
    LET r == magidict_disenchant_recursive(ConvState(h, {}), Ref(self))
    IN IF r.ret = NULL THEN Out(r.cs.h, Failed(r.cs)) ELSE Out(r.cs.h, Returned(r.ret))

(***************************************************************************)
(* copy, state export / import, enchant.                                   *)
(***************************************************************************)
magidict_copy(h, self) ==
    LET dict_copy == Len(h) + 1
        o == MagiDictCall(Alloc(h, Obj("dict", h[self].items, FALSE, FALSE)),
                          <<Ref(dict_copy)>>, <<>>)
    IN IF o.r.exc # "" THEN o
       ELSE Out([o.h EXCEPT ![o.r.val.n].from_none = h[self].from_none,
                            ![o.r.val.n].from_missing = h[self].from_missing],
                o.r)

magidict_getstate(h, self) ==
    LET state == Len(h) + 1
        data == Len(h) + 2
        h1 == Alloc(Alloc(h, Obj("dict", <<>>, FALSE, FALSE)),
                    Obj("dict", h[self].items, FALSE, FALSE))
    IN Out(SetObjItems(h1, state,
                       << Entry(KData, Ref(data)),
                          Entry(KFromNone, BoolV(h[self].from_none)),
                          Entry(KFromMissing, BoolV(h[self].from_missing)) >>),
           Returned(Ref(state)))

\* PyObject_IsTrue
PyObject_IsTrue(h, v) ==
    CASE v.t \in {"bool", "int"} -> v.n # 0
      [] v.t = "str" -> TRUE
      [] v.t = "ref" -> h[v.n].items # <<>>
      [] OTHER -> FALSE

\* PyDict_GetItemString(state, name): NULL when state is no dict
GetItemString(h, state, k) ==
    IF PyDict_Check(h, state) THEN PyDict_GetItem(h, state.n, k) ELSE NULL

magidict_setstate(h, self, state) ==
    IF IsRef(state) /\ PyDict_Check(h, state) /\ NullTable(h, state.n) THEN Out(h, Faulted)
    ELSE
    LET from_none == GetItemString(h, state, KFromNone)
        from_missing == GetItemString(h, state, KFromMissing)
        data == GetItemString(h, state, KData)
        h1 == [h EXCEPT ![self].from_none =
                            IF from_none # NULL /\ PyObject_IsTrue(h, from_none)
                            THEN TRUE ELSE @,
                        ![self].from_missing =
                            IF from_missing # NULL /\ PyObject_IsTrue(h, from_missing)
                            THEN TRUE ELSE @]
    IN IF data # NULL /\ PyDict_Check(h1, data)
       THEN LET r == HookInto(ConvState(h1, {}), data.n, self, 1)
            IN IF r.ret = NULL THEN Out(r.cs.h, Failed(r.cs))
               ELSE Out(r.cs.h, Returned(None))
       ELSE Out(h1, Returned(None))

(***************************************************************************)
(* filter.  The predicates of the model are functions of the program,      *)
(* numbered: of the value alone (1: the value is truthy, 2: never), or of  *)
(* key and value (3: the key is "a"); NotNone is the lambda built at lines *)
(* 1403-1411 when none is supplied.                                        *)
(***************************************************************************)
FunctionV(i) == [t |-> "function", n |-> i]
NotNone == FunctionV(0)
Functions == {FunctionV(1), FunctionV(2), FunctionV(3)}
\* the number of parameters the function declares
Arity(function) == IF function = FunctionV(3) THEN 2 ELSE 1

\* the value the function returns for an entry
Apply(h, function, key, value) ==
    CASE function = NotNone -> BoolV(value # None)
      [] function = FunctionV(1) -> BoolV(PyObject_IsTrue(h, value))
      [] function = FunctionV(2) -> BoolV(FALSE)
      [] OTHER -> BoolV(key = KA)

\* lines 1445-1465: params is inspect.signature(function).parameters, a
\* mapping proxy and no dict, so that PyDict_Size(params) answers -1 and
\* leaves SystemError set
SignatureSize(function) == [num_args |-> -1, err |-> "SystemError"]

\* PyObject_CallFunctionObjArgs with nargs arguments while the exception
\* pending is set: too few arguments raise TypeError; a result returned
\* with an exception set is refused with SystemError
CallFunction(h, function, nargs, key, value, pending) ==
    IF Arity(function) # nargs THEN [exc |-> "TypeError", val |-> NULL]
    ELSE IF pending # "" THEN [exc |-> "SystemError", val |-> NULL]
    ELSE [exc |-> "", val |-> Apply(h, function, key, value)]

\* lines 1471-1497
RECURSIVE FilterLoop(_, _, _, _, _, _, _)
FilterLoop(h, self, filtered, function, num_args, pending, pos) ==
    IF NullTable(h, self) THEN Out(h, Faulted)
    ELSE IF pos > Len(h[self].items) THEN Out(h, ReturnedPending(Ref(filtered), pending))
    ELSE LET e == h[self].items[pos]
             result == CallFunction(h, function, IF num_args = 2 THEN 2 ELSE 1,
                                    e.k, e.v, pending)
         IN IF result.val = NULL THEN Out(h, Raised(result.exc))
            ELSE IF ~PyObject_IsTrue(h, result.val)
            THEN FilterLoop(h, self, filtered, function, num_args, pending, pos + 1)
            ELSE IF NullTable(h, filtered) THEN Out(h, Faulted)
            ELSE FilterLoop(PyDict_SetItem(h, filtered, e.k, e.v), self, filtered,
                            function, num_args, pending, pos + 1)

\* function = None when no predicate is passed; the new MagiDict is released
\* when the call fails
magidict_filter(h, self, function) ==
    LET fn == IF function = None THEN NotNone ELSE function
        filtered == Len(h) + 1
        sig == SignatureSize(fn)
        o == FilterLoop(Alloc(h, RawMagiDict(FALSE, FALSE)), self, filtered, fn,
                        sig.num_args, sig.err, 1)
    IN IF o.r.exc \notin {"", "Fault"} THEN Out(h, o.r) ELSE o

\* what __reduce_ex__ (lines 1370-1386) asks of the loader: call the type
\* with no arguments, then __setstate__(state) on the new object
Restore(h, state) ==
    LET o1 == MagiDictCall(h, <<>>, <<>>)
        self == Len(h) + 1
        o2 == magidict_setstate(o1.h, self, state)
    IN IF o2.r.exc # "" THEN o2 ELSE Out(o2.h, Returned(Ref(self)))

module_enchant(h, d) ==
    IF IsMagi(h, d) THEN Out(h, Returned(d))
    ELSE IF ~PyDict_Check(h, d) THEN Out(h, Raised("TypeError"))
    ELSE MagiDictCall(h, <<d>>, <<>>)

(***************************************************************************)
(* The state machine.  heap is the object graph; ret is the result of the  *)
(* last operation and last names that operation and its arguments; nops    *)
(* counts the operations performed; origin keeps the initial heap (the     *)
(* plain structures as they were before any conversion touched them).      *)
(***************************************************************************)
Addrs(h) == 1..Len(h)
Containers(h) == {a \in Addrs(h) : h[a].kind = "magi"}

\* the structures the program starts from (plain ones, but for MagiDicts
\* constructed beforehand), the root being object 1
Sources ==
    { \* {"a": None, "b": [{}, None]}
      << Obj("dict", <<Entry(KA, None), Entry(KB, Ref(2))>>, FALSE, FALSE),
         Obj("list", <<Elem(Ref(3)), Elem(None)>>, FALSE, FALSE),
         Obj("dict", <<>>, FALSE, FALSE) >>,
      \* m = {"a": ({}, "text")}; m["b"] = m
      << Obj("dict", <<Entry(KA, Ref(2)), Entry(KB, Ref(1))>>, FALSE, FALSE),
         Obj("tuple", <<Elem(Ref(3)), Elem(TextV)>>, FALSE, FALSE),
         Obj("dict", <<>>, FALSE, FALSE) >>,
      \* {}, next to shared = {"a": 1} and {"a": shared, "b": shared}
      << Obj("dict", <<>>, FALSE, FALSE),
         Obj("dict", <<Entry(KA, Ref(3)), Entry(KB, Ref(3))>>, FALSE, FALSE),
         Obj("dict", <<Entry(KA, IntV(1))>>, FALSE, FALSE) >>,
      \* d = {"a": 1}, next to the state {"data": d, "_from_missing": True}
      << Obj("dict", <<Entry(KA, IntV(1))>>, FALSE, FALSE),
         Obj("dict", <<Entry(KData, Ref(1)), Entry(KFromMissing, BoolV(TRUE))>>,
             FALSE, FALSE) >>,
      \* m1 = MagiDict({"a": None}); m2 = MagiDict({"a": 1});
      \* {"b": [m1, m2, [m2]]}
      << Obj("dict", <<Entry(KB, Ref(2))>>, FALSE, FALSE),
         Obj("list", <<Elem(Ref(3)), Elem(Ref(4)), Elem(Ref(5))>>, FALSE, FALSE),
         Obj("magi", <<Entry(KA, None)>>, FALSE, FALSE),
         Obj("magi", <<Entry(KA, IntV(1))>>, FALSE, FALSE),
         Obj("list", <<Elem(Ref(4))>>, FALSE, FALSE) >>,
      \* {"pop": 1, "_from_none": 1}: keys named as a method and as a flag;
      \* next to the list of pairs [(1, None)]
      << Obj("dict", <<Entry(Str(<<"pop">>), IntV(1)), Entry(KFromNone, IntV(1))>>,
             FALSE, FALSE),
         Obj("list", <<Elem(Ref(3))>>, FALSE, FALSE),
         Obj("tuple", <<Elem(IntV(1)), Elem(None)>>, FALSE, FALSE) >>,
      \* {"data": 1}, next to e = {} and {"a": e, "b": e}
      << Obj("dict", <<Entry(KData, IntV(1))>>, FALSE, FALSE),
         Obj("dict", <<Entry(KA, Ref(3)), Entry(KB, Ref(3))>>, FALSE, FALSE),
         Obj("dict", <<>>, FALSE, FALSE) >> }

\* keys and values the operations are called with
Keys == {KA, KB, TupK(<<KA, KB>>)}
Scalars == {None, IntV(1)}
Values(h) == Scalars \cup {Ref(a) : a \in Addrs(h)}
PathAtoms == {KA, KB, IntK(0), IntK(-1), IntK(7), Str(<<"1">>), BigK}
PathSeqs == {<<>>} \cup {<<x>> : x \in PathAtoms}
                \cup {<<x, y>> : x \in {KA, KB}, y \in PathAtoms}
                \cup {<<KB, IntK(0), x>> : x \in {KA, KB}}
PathKeys == {ListK(e) : e \in PathSeqs} \cup {TupK(<<x, y>>) : x, y \in {KA, KB}}
DottedKeys == {Str(<<"a", "b">>), Str(<<"b", "0">>), Str(<<"b", "1">>), Str(<<"b", "7">>),
               Str(<<"b", "a">>), Str(<<"b", BigNumeral>>), Str(<<"b", "0", "a">>),
               Str(<<"a", "1", "0">>)}
LookupKeys == Keys \cup PathKeys \cup DottedKeys

\* attribute names: the flags, keys, members of the type, an unknown name
AttrNames == {KFromNone, KFromMissing, KA, Str(<<"pop">>), Str(<<"__class__">>),
              Str(<<"zz">>)}

Op(op, self, key, arg, arg2) ==
    [op |-> op, self |-> self, key |-> key, arg |-> arg, arg2 |-> arg2]

\* the process is alive: no memory fault, no conversion that never returns
Alive == ret.exc \notin {"Fault", "NoReturn"}

CanRun == nops < MaxOps /\ Alive

\* the interpreter refuses the result of a method that returns a value with
\* an exception set: SystemError, the value being released
CheckResult(h, o) ==
    IF o.r.exc = "" /\ o.r.pending # "" THEN Out(h, Raised("SystemError")) ELSE o

\* self.name(...): the attribute read of lines 521-572 and then the call of
\* what it returned; o is the outcome of the method's body.  A stored value
\* or a sentinel is not callable.
CallMethod(h, self, name, o) ==
    LET g == magidict_getattro(h, self, Str(<<name>>))
    IN IF g.r.exc # "" THEN g
       ELSE IF g.r.val = MemberV(Str(<<name>>)) THEN CheckResult(h, o)
       ELSE Out(g.h, Raised("TypeError"))

Do(op, o) ==
    /\ CanRun
    /\ heap' = o.h
    /\ ret' = o.r
    /\ last' = op
    /\ nops' = nops + 1
    /\ UNCHANGED origin

Init ==
    /\ \E src \in Sources :
        /\ origin = src
        /\ MagiDictCall(src, <<Ref(1)>>, <<>>).r.exc = ""
        /\ heap = MagiDictCall(src, <<Ref(1)>>, <<>>).h
    /\ ret = Returned(Ref(Len(heap)))
    /\ last = Op("MagiDict", 0, NoKey, Ref(1), NULL)
    /\ nops = 0

\* MagiDict(), MagiDict(arg), MagiDict(b=value), MagiDict(arg, b=value)
Construct ==
    \E arg \in Values(heap) \cup {NULL}, value \in {NULL, IntV(1), Ref(1)} :
        Do(Op("MagiDict", 0, NoKey, arg, value),
           MagiDictCall(heap, IF arg = NULL THEN <<>> ELSE <<arg>>,
                        IF value = NULL THEN <<>> ELSE <<Entry(KB, value)>>))

\* self[key] = value
SetItem ==
    \E self \in Containers(heap), key \in Keys, value \in Values(heap) :
        Do(Op("setitem", self, key, value, NULL), magidict_setitem(heap, self, key, value))

\* del self[key]
DelItem ==
    \E self \in Containers(heap), key \in Keys :
        Do(Op("delitem", self, key, NULL, NULL), magidict_setitem(heap, self, key, NULL))

\* self.update(other, b=value), self.update(other), self.update(b=value)
Update ==
    \E self \in Containers(heap), other \in Values(heap) \cup {NULL},
       value \in {NULL, IntV(1), Ref(1)} :
        Do(Op("update", self, NoKey, other, value),
           CallMethod(heap, self, "update",
               magidict_update(heap, self,
                               IF other = NULL THEN <<>> ELSE <<other>>,
                               IF value = NULL THEN <<>> ELSE <<Entry(KB, value)>>)))

\* self.setdefault(key) and self.setdefault(key, dflt)
SetDefault ==
    \E self \in Containers(heap), key \in Keys, dflt \in Values(heap) \cup {NULL} :
        Do(Op("setdefault", self, key, dflt, NULL),
           CallMethod(heap, self, "setdefault", magidict_setdefault(heap, self, key, dflt)))

\* self.pop(key) and self.pop(key, dflt)
Pop ==
    \E self \in Containers(heap), key \in Keys, dflt \in Scalars \cup {NULL} :
        Do(Op("pop", self, key, dflt, NULL),
           CallMethod(heap, self, "pop", magidict_pop(heap, self, key, dflt)))

PopItem ==
    \E self \in Containers(heap) :
        Do(Op("popitem", self, NoKey, NULL, NULL),
           CallMethod(heap, self, "popitem", magidict_popitem(heap, self)))

Clear ==
    \E self \in Containers(heap) :
        Do(Op("clear", self, NoKey, NULL, NULL),
           CallMethod(heap, self, "clear", magidict_clear(heap, self)))

\* self[key]
GetItem ==
    \E self \in Containers(heap), key \in LookupKeys :
        Do(Op("getitem", self, key, NULL, NULL), magidict_getitem(heap, self, key))

\* self.mget(key) and self.mget(key, dflt)
MGet ==
    \E self \in Containers(heap), key \in Keys, dflt \in Scalars \cup {NULL} :
        Do(Op("mget", self, key, dflt, NULL),
           CallMethod(heap, self, "mget", magidict_mget(heap, self, key, dflt)))

(***************************************************************************)
(* Deep copy.  copy.deepcopy(x) reads x.__deepcopy__ and calls it with its *)
(* memo; magidict_deepcopy_recursive hands every value that is no MagiDict *)
(* back to copy.deepcopy with the same memo.                               *)
(***************************************************************************)
RECURSIVE magidict_deepcopy_recursive(_, _)
RECURSIVE DeepCopyLoop(_, _, _, _)
RECURSIVE copy_deepcopy(_, _)
RECURSIVE StdCopyLoop(_, _, _, _)

\* copy.deepcopy of the items of a dict, list or tuple into the new object
StdCopyLoop(cs, src, new, i) ==
    IF i > Len(cs.h[src].items) THEN Res(cs, Ref(new))
    ELSE LET r == copy_deepcopy(cs, cs.h[src].items[i].v)
         IN IF r.ret = NULL THEN r
            ELSE StdCopyLoop([r.cs EXCEPT !.h[new].items =
                                  Append(@, [cs.h[src].items[i] EXCEPT !.v = r.ret])],
                             src, new, i + 1)

\* copy.deepcopy(item, memo), called at line 1278: a scalar is returned as it
\* is; a dict or a list is entered in the memo and then filled; a tuple is
\* entered once its elements are copied, and is returned itself when no
\* element changed; a MagiDict is copied by its __deepcopy__
copy_deepcopy(cs0, item) ==
    LET cs == [cs0 EXCEPT !.calls = @ + 1]
        new == Len(cs0.h) + 1
        kind == KindOf(cs0.h, item)
        tup == kind \in {"tuple", "namedtuple"}
    IN
    IF cs0.calls >= MaxCalls THEN Res([cs0 EXCEPT !.over = TRUE], NULL)
    ELSE IF ~IsRef(item) THEN Res(cs, item)
    ELSE IF MemoGet(cs.memo, item.n) # NULL THEN Res(cs, MemoGet(cs.memo, item.n))
    ELSE IF kind = "magi"
    THEN IF NullTable(cs.h, item.n) THEN Fault(cs)
         ELSE magidict_deepcopy_recursive(cs, item)
    ELSE LET r == StdCopyLoop([cs EXCEPT !.h = Alloc(@, Obj(kind, <<>>, FALSE, FALSE)),
                                         !.memo = IF tup THEN @
                                                  ELSE MemoSet(@, item.n, Ref(new))],
                              item.n, new, 1)
         IN IF r.ret = NULL \/ ~tup THEN r
            ELSE IF MemoGet(r.cs.memo, item.n) # NULL
            THEN Res(r.cs, MemoGet(r.cs.memo, item.n))
            ELSE IF kind = "tuple" /\ r.cs.h[new].items = r.cs.h[item.n].items
            THEN Res(r.cs, item)
            ELSE Res([r.cs EXCEPT !.memo = MemoSet(@, item.n, Ref(new))], Ref(new))

\* lines 1245-1257
DeepCopyLoop(cs, src, copied, pos) ==
    IF NullTable(cs.h, src) THEN Fault(cs)
    ELSE IF pos > Len(cs.h[src].items) THEN Res(cs, Ref(copied))
    ELSE LET e == cs.h[src].items[pos]
             r == magidict_deepcopy_recursive(cs, e.v)
         IN IF r.ret = NULL THEN r
            ELSE IF NullTable(r.cs.h, copied) THEN Fault(r.cs)
            ELSE DeepCopyLoop([r.cs EXCEPT !.h = PyDict_SetItem(@, copied, e.k, r.ret)],
                              src, copied, pos + 1)

\* lines 1214-1285
magidict_deepcopy_recursive(cs0, item) ==
    LET cs == [cs0 EXCEPT !.calls = @ + 1]
        copied == Len(cs0.h) + 1
    IN
    IF cs0.calls >= MaxCalls THEN Res([cs0 EXCEPT !.over = TRUE], NULL)
    ELSE IF IsRef(item) /\ MemoGet(cs.memo, item.n) # NULL
    THEN Res(cs, MemoGet(cs.memo, item.n))
    ELSE IF IsMagi(cs.h, item)
    THEN DeepCopyLoop([cs EXCEPT !.h = Alloc(@, RawMagiDict(cs.h[item.n].from_none,
                                                            cs.h[item.n].from_missing)),
                                 !.memo = MemoSet(@, item.n, Ref(copied))],
                      item.n, copied, 1)
    ELSE copy_deepcopy(cs, item)

\* lines 1287-1296, for the empty memo of copy.deepcopy(self)
magidict_deepcopy(h, self) ==
    LET r == magidict_deepcopy_recursive(ConvState(h, {}), Ref(self))
    IN IF r.ret = NULL THEN Out(r.cs.h, Failed(r.cs)) ELSE Out(r.cs.h, Returned(r.ret))

Copy ==
    \E self \in Containers(heap) :
        Do(Op("copy", self, NoKey, NULL, NULL),
           CallMethod(heap, self, "copy", magidict_copy(heap, self)))

Disenchant ==
    \E self \in Containers(heap) :
        Do(Op("disenchant", self, NoKey, NULL, NULL),
           CallMethod(heap, self, "disenchant", magidict_disenchant(heap, self)))

GetState ==
    \E self \in Containers(heap) :
        Do(Op("getstate", self, NoKey, NULL, NULL),
           CallMethod(heap, self, "__getstate__", magidict_getstate(heap, self)))

\* self.__setstate__(state)
SetState ==
    \E self \in Containers(heap), state \in {Ref(a) : a \in Addrs(heap)} :
        Do(Op("setstate", self, NoKey, state, NULL),
           CallMethod(heap, self, "__setstate__", magidict_setstate(heap, self, state)))

\* self.name
GetAttr ==
    \E self \in Containers(heap), name \in AttrNames :
        Do(Op("getattr", self, name, NULL, NULL), magidict_getattro(heap, self, name))

\* self.name = value
SetAttr ==
    \E self \in Containers(heap), name \in AttrNames, value \in Scalars :
        Do(Op("setattr", self, name, value, NULL),
           PyObject_GenericSetAttr(heap, self, name, value))

\* self.search_keys(key)
SearchKeys ==
    \E self \in Containers(heap), key \in {KA, KB} :
        Do(Op("search_keys", self, key, NULL, NULL),
           CallMethod(heap, self, "search_keys", magidict_search_keys(heap, self, key)))

\* self.search_key(key) and self.search_key(key, dflt)
SearchKey ==
    \E self \in Containers(heap), key \in {KA, KB}, dflt \in Scalars \cup {NULL} :
        Do(Op("search_key", self, key, dflt, NULL),
           CallMethod(heap, self, "search_key", magidict_search_key(heap, self, key, dflt)))

\* fresh = MagiDict(); fresh.__setstate__(state), for a plain dict state
Unpickle ==
    \E state \in {Ref(a) : a \in {b \in Addrs(heap) : heap[b].kind = "dict"}} :
        Do(Op("unpickle", Len(heap) + 1, NoKey, state, NULL), Restore(heap, state))

\* dict.__setitem__(self, key, value): the method of the base type stores the
\* value as it is
dict_setitem(h, self, key, value) ==
    IF NullTable(h, self) THEN Out(h, Faulted)
    ELSE Out(PyDict_SetItem(h, self, key, value), Returned(None))

\* dict.__setitem__(self, key, m) for a plain mapping m
BaseSetItem ==
    \E self \in Containers(heap), key \in {KA, KB},
       value \in {Ref(a) : a \in {b \in Addrs(heap) : heap[b].kind = "dict"}} :
        Do(Op("dict.__setitem__", self, key, value, NULL),
           dict_setitem(heap, self, key, value))

\* copy.deepcopy(self)
DeepCopy ==
    \E self \in Containers(heap) :
        Do(Op("deepcopy", self, NoKey, NULL, NULL),
           CallMethod(heap, self, "__deepcopy__", magidict_deepcopy(heap, self)))

\* self.filter() and self.filter(function)
Filter ==
    \E self \in Containers(heap), function \in Functions \cup {None} :
        Do(Op("filter", self, NoKey, function, NULL),
           CallMethod(heap, self, "filter", magidict_filter(heap, self, function)))

Next ==
    \/ Construct
    \/ SetItem
    \/ DelItem
    \/ Update
    \/ SetDefault
    \/ Pop
    \/ PopItem
    \/ Clear
    \/ GetItem
    \/ MGet
    \/ Copy
    \/ Disenchant
    \/ GetState
    \/ SetState
    \/ GetAttr
    \/ SetAttr
    \/ SearchKeys
    \/ SearchKey
    \/ Unpickle
    \/ Filter
    \/ BaseSetItem
    \/ DeepCopy

Spec == Init /\ [][Next]_vars

(***************************************************************************)
(* The conversions on generated inputs: every plain structure of dicts,    *)
(* lists, tuples, None and 1 with at most MaxItems items in all, reachable *)
(* from its root dict (object 1), sharing and cycles included.  The        *)
(* program holds the plain structure and an empty MagiDict() and applies   *)
(* the conversions to them.                                                *)
(***************************************************************************)
SrcKeyNames == <<"a", "b", "c", "d", "e">>
SrcKey(i) == Str(<<SrcKeyNames[i]>>)

\* object a gets one more item holding v (the next key, if a is a dict)
SrcAppend(h, a, v) ==
    [h EXCEPT ![a].items =
        Append(@, IF h[a].kind = "dict" THEN Entry(SrcKey(Len(@) + 1), v) ELSE Elem(v))]

\* The structures are built item by item, objects being numbered in the
\* order in which they are first referenced, so that each structure is
\* produced once: SrcFill gives object i its remaining n items out of the
\* budget, SrcFrom moves on to object i.
RECURSIVE SrcFill(_, _, _, _)
RECURSIVE SrcFrom(_, _, _)
SrcFill(h, i, n, budget) ==
    IF n = 0 THEN SrcFrom(h, i + 1, budget)
    ELSE UNION (
           { SrcFill(SrcAppend(h, i, v), i, n - 1, budget - 1) :
               v \in Scalars \cup {Ref(a) : a \in Addrs(h)} }
           \cup
           { SrcFill(Append(SrcAppend(h, i, Ref(Len(h) + 1)), Obj(kind, <<>>, FALSE, FALSE)),
                     i, n - 1, budget - 1) :
               kind \in {"dict", "list", "tuple", "namedtuple"} } )

SrcFrom(h, i, budget) ==
    IF i > Len(h) THEN {h}
    ELSE UNION {SrcFill(h, i, n, budget) : n \in 0..budget}

RefsOf(h, a) == {h[a].items[i].v.n : i \in {j \in 1..Len(h[a].items) : IsRef(h[a].items[j].v)}}
TupleRefs(h, a) == {b \in RefsOf(h, a) : h[b].kind \in {"tuple", "namedtuple"}}

RECURSIVE TupleClosure(_, _)
TupleClosure(h, S) ==
    LET T == S \cup UNION {TupleRefs(h, a) : a \in S}
    IN IF T = S THEN S ELSE TupleClosure(h, T)

\* A tuple is built from elements that exist already: no cycle of the object
\* graph runs through tuples alone.
TuplesWellFounded(h) ==
    \A a \in Addrs(h) : h[a].kind \in {"tuple", "namedtuple"} => a \notin TupleClosure(h, TupleRefs(h, a))

GeneratedSources ==
    {h \in SrcFrom(<<Obj("dict", <<>>, FALSE, FALSE)>>, 1, MaxItems) : TuplesWellFounded(h)}

\* the empty MagiDict() of the initial state
Holder == Len(origin) + 1

InitConv ==
    /\ origin \in GeneratedSources
    /\ heap = MagiDictCall(origin, <<>>, <<>>).h
    /\ ret = Returned(Ref(Holder))
    /\ last = Op("source", 0, NoKey, NULL, NULL)
    /\ nops = 0

\* MagiDict(m) for the root m
ConvConstruct ==
    /\ last.op = "source"
    /\ Do(Op("MagiDict", 0, NoKey, Ref(1), NULL), MagiDictCall(heap, <<Ref(1)>>, <<>>))

\* holder["a"] = x for any source object x
ConvAssign ==
    /\ last.op = "source"
    /\ \E x \in Addrs(origin) :
        Do(Op("setitem", Holder, KA, Ref(x), NULL), magidict_setitem(heap, Holder, KA, Ref(x)))

\* the converted value of the last conversion
Hooked == IF last.op = "MagiDict" THEN ret.val ELSE PyDict_GetItem(heap, Holder, KA)

ConvDone == last.op \in {"MagiDict", "setitem"} /\ ret.exc = ""

\* md.disenchant() on the converted root or the holder
ConvDisenchant ==
    /\ ConvDone
    /\ LET self == IF last.op = "MagiDict" THEN ret.val.n ELSE Holder
       IN Do(Op("disenchant", self, NoKey, last.arg, NULL),
             CallMethod(heap, self, "disenchant", magidict_disenchant(heap, self)))

\* hook applied to a hooked value: MagiDict(md), or holder["b"] = hooked
ConvRehook ==
    /\ ConvDone
    /\ \/ /\ last.op = "MagiDict"
          /\ Do(Op("rehook", 0, NoKey, Hooked, NULL), MagiDictCall(heap, <<Hooked>>, <<>>))
       \/ Do(Op("restore", Holder, KB, Hooked, NULL),
             magidict_setitem(heap, Holder, KB, Hooked))

\* enchant(md)
ConvEnchant ==
    /\ ConvDone
    /\ Do(Op("enchant", 0, NoKey, Hooked, NULL), module_enchant(heap, Hooked))

NextConv ==
    \/ ConvConstruct
    \/ ConvAssign
    \/ ConvDisenchant
    \/ ConvRehook
    \/ ConvEnchant

SpecConv == InitConv /\ [][NextConv]_vars

(***************************************************************************)
(* Vocabulary of the properties.                                           *)
(***************************************************************************)
\* the objects reachable from the objects S through entries and elements
RECURSIVE ReachFrom(_, _)
ReachFrom(h, S) ==
    LET T == S \cup UNION {RefsOf(h, a) : a \in S}
    IN IF T = S THEN S ELSE ReachFrom(h, T)

\* no object reachable from v lies on a cycle
Acyclic(h, v) ==
    IsRef(v) => \A a \in ReachFrom(h, {v.n}) : a \notin ReachFrom(h, RefsOf(h, a))

\* v is an empty Container carrying exactly the flags fn, fm
IsSentinel(h, v, fn, fm) ==
    /\ IsRef(v)
    /\ h[v.n].kind = "magi"
    /\ h[v.n].items = <<>>
    /\ h[v.n].from_none = fn
    /\ h[v.n].from_missing = fm

\* mappings of either type compare as mappings, lists as lists, tuples as tuples
ShapeClass(kind) ==
    IF kind \in {"dict", "magi"} THEN "mapping"
    ELSE IF kind = "namedtuple" THEN "tuple" ELSE kind
KeySet(h, a) == {h[a].items[i].k : i \in 1..Len(h[a].items)}

\* v1 of heap h1 and v2 of heap h2 agree at their top level
LocalEq(h1, v1, h2, v2) ==
    IF IsRef(v1) /\ IsRef(v2)
    THEN /\ ShapeClass(h1[v1.n].kind) = ShapeClass(h2[v2.n].kind)
         /\ Len(h1[v1.n].items) = Len(h2[v2.n].items)
         /\ ShapeClass(h1[v1.n].kind) = "mapping" => KeySet(h1, v1.n) = KeySet(h2, v2.n)
    ELSE v1 = v2

\* the pairs of values found at the same position below the pair p
PairKids(h1, h2, p) ==
    IF IsRef(p[1]) /\ IsRef(p[2]) /\ LocalEq(h1, p[1], h2, p[2])
    THEN LET o1 == h1[p[1].n]
             o2 == h2[p[2].n]
         IN { << o1.items[i].v,
                 IF ShapeClass(o1.kind) = "mapping"
                 THEN o2.items[KeyIndex(o2.items, o1.items[i].k)].v
                 ELSE o2.items[i].v >> : i \in 1..Len(o1.items) }
    ELSE {}

RECURSIVE PairClosure(_, _, _)
PairClosure(h1, h2, S) ==
    LET T == S \cup UNION {PairKids(h1, h2, p) : p \in S}
    IN IF T = S THEN S ELSE PairClosure(h1, h2, T)

\* v1 and v2 have the same content at every depth (cycles included)
ContentEq(h1, v1, h2, v2) ==
    \A p \in PairClosure(h1, h2, {<<v1, v2>>}) : LocalEq(h1, p[1], h2, p[2])

\* no plain mapping is reachable from any Container
NoPlainMapping(h) ==
    \A c \in Containers(h) : \A a \in ReachFrom(h, {c}) : h[a].kind # "dict"

MutationOps == {"setitem", "delitem", "update", "clear", "pop", "popitem", "setdefault"}
HookingOps == {"MagiDict", "setitem", "update", "setdefault"}

(***************************************************************************)
(* Properties of the operations (specification Spec).                      *)
(***************************************************************************)
\* C1: a mutation primitive (set-key, delete-key, update, clear, pop,
\* popitem, setdefault) called on a protected Container raises TypeError
\* before doing anything else: nothing on the heap changes, the Container's
\* mapping and flags included.
C1_ProtectedMutationRaises ==
    [][ ( /\ last'.op \in MutationOps
          /\ nops' = nops + 1
          /\ magidict_is_protected(heap, last'.self) )
        => ( ret'.exc = "TypeError" /\ heap' = heap ) ]_vars

\* C2: in every reachable state, a Container with from_none or from_missing
\* set has an empty mapping.
C2_ProtectedIsEmpty ==
    \A a \in Containers(heap) : magidict_is_protected(heap, a) => heap[a].items = <<>>

\* C3: construction, set-key, update and setdefault on an unprotected
\* Container complete, and after them every mapping reachable from a
\* Container through mapping values, list elements and tuple elements is a
\* Container.
C3_NoPlainMappingRemains ==
    last.op \in HookingOps =>
        /\ ret.exc \in {"", "TypeError"}
        /\ NoPlainMapping(heap)

\* C8: mget without a default returns the stored value of a key present with
\* a non-null value, an empty Container flagged from_none only for a key
\* present with None, and an empty Container flagged from_missing only for
\* an absent key; the receiver is left as it was.
C8_MgetDistinguishes ==
    [][ ( last'.op = "mget" /\ last'.arg = NULL /\ nops' = nops + 1 )
        => LET self == last'.self
               i == KeyIndex(heap[self].items, last'.key)
           IN /\ ret'.exc = ""
              /\ heap'[self] = heap[self]
              /\ (i # 0 /\ heap[self].items[i].v # None)
                    => ret'.val = heap[self].items[i].v
              /\ (i # 0 /\ heap[self].items[i].v = None)
                    => IsSentinel(heap', ret'.val, TRUE, FALSE)
              /\ i = 0 => IsSentinel(heap', ret'.val, FALSE, TRUE) ]_vars

\* the keys that are neither lists nor tuples nor dotted texts
PlainKey(k) == k.t = "int" \/ (k.t = "str" /\ Len(k.segs) = 1)

\* C9: for an empty Container p flagged from_missing, p[k] with a plain key
\* k raises nothing and yields an empty Container flagged from_missing;
\* p is empty and falsy.
C9_ProtectedPropagation ==
    ( /\ last.op = "getitem"
      /\ PlainKey(last.key)
      /\ IsSentinel(heap, Ref(last.self), FALSE, TRUE) )
    => /\ ret.exc = ""
       /\ IsSentinel(heap, ret.val, FALSE, TRUE)
       /\ ~PyObject_IsTrue(heap, Ref(last.self))

\* the answer C10 describes for the sub-keys ks[i..] at the value obj
RECURSIVE ClaimedWalk(_, _, _, _)
ClaimedWalk(h, obj, ks, i) ==
    IF i > Len(ks)
    THEN [s |-> IF obj = None THEN "from_none" ELSE "value", v |-> obj]
    ELSE IF KindOf(h, obj) \in {"dict", "magi"}
    THEN LET j == KeyIndex(h[obj.n].items, ks[i])
         IN IF j = 0 THEN [s |-> "from_missing", v |-> NULL]
            ELSE ClaimedWalk(h, h[obj.n].items[j].v, ks, i + 1)
    ELSE IF KindOf(h, obj) \in {"list", "tuple", "namedtuple"}
    THEN LET index == PyNumber_Long(ks[i])
             n == Len(h[obj.n].items)
             pos == IF index.n < 0 THEN index.n + n ELSE index.n
         IN IF ~index.ok \/ index.big \/ pos < 0 \/ pos >= n
            THEN [s |-> "from_missing", v |-> NULL]
            ELSE ClaimedWalk(h, h[obj.n].items[pos + 1].v, ks, i + 1)
    ELSE [s |-> "from_missing", v |-> NULL]

\* C10: self[key] with a list or tuple of sub-keys never raises and answers
\* as the walk describes: a from_missing sentinel where the walk cannot go
\* on, a from_none sentinel for a final None, the final value otherwise.
\* A tuple that is itself a stored key is answered with its stored value
\* (lines 304-313) and is left out here.
C10_PathLookup ==
    ( /\ last.op = "getitem"
      /\ last.key.t \in {"list", "tuple"}
      /\ ~(last.key.t = "tuple" /\ KeyIndex(heap[last.self].items, last.key) # 0) )
    => LET w == ClaimedWalk(heap, Ref(last.self), last.key.e, 1)
       IN /\ ret.exc = ""
          /\ ret.pending = ""
          /\ w.s = "from_missing" => IsSentinel(heap, ret.val, FALSE, TRUE)
          /\ w.s = "from_none" => IsSentinel(heap, ret.val, TRUE, FALSE)
          /\ w.s = "value" => ret.val = w.v

\* the segments of a dotted text key, each as a text key
SegKeys(segs) == [i \in 1..Len(segs) |-> Str(<<segs[i]>>)]

\* C11: self[key] for a text key with a '.' that is no key of self walks the
\* segments of the key: when every segment resolves the value reached is
\* returned; when a segment fails (absent key, index that is no number or
\* out of range, value that is no container) the outcome is KeyError or a
\* from_missing sentinel; no other error is raised or left set.
C11_DottedLookup ==
    ( /\ last.op = "getitem"
      /\ last.key.t = "str"
      /\ Len(last.key.segs) > 1
      /\ KeyIndex(heap[last.self].items, last.key) = 0 )
    => LET w == ClaimedWalk(heap, Ref(last.self), SegKeys(last.key.segs), 1)
       IN /\ ret.exc \in {"", "KeyError"}
          /\ ret.pending = ""
          /\ w.s # "from_missing" => (ret.exc = "" /\ ret.val = w.v)
          /\ w.s = "from_missing" =>
                 (ret.exc = "KeyError" \/ IsSentinel(heap, ret.val, FALSE, TRUE))

\* C12: reading an attribute never raises.  _from_none and _from_missing
\* give the flags, whatever the keys; any other name that is a key gives
\* the key's value, a from_none sentinel for None, before any member of the
\* same name; a name that is no key gives the member of the type; a name
\* that is neither gives a from_missing sentinel.
C12_AttributeRead ==
    [][ ( last'.op = "getattr" /\ nops' = nops + 1 )
        => LET self == last'.self
               name == last'.key
               i == KeyIndex(heap[self].items, name)
               flag == name \in {KFromNone, KFromMissing}
           IN /\ ret'.exc = ""
              /\ name = KFromNone => ret'.val = BoolV(heap[self].from_none)
              /\ name = KFromMissing => ret'.val = BoolV(heap[self].from_missing)
              /\ (~flag /\ i # 0 /\ heap[self].items[i].v = None)
                    => IsSentinel(heap', ret'.val, TRUE, FALSE)
              /\ (~flag /\ i # 0 /\ heap[self].items[i].v # None)
                    => ret'.val = heap[self].items[i].v
              /\ (~flag /\ i = 0 /\ IsMember(name)) => ret'.val = MemberV(name)
              /\ (~flag /\ i = 0 /\ ~IsMember(name))
                    => IsSentinel(heap', ret'.val, FALSE, TRUE) ]_vars

\* C13: assigning to an attribute of a Container is rejected with an error
\* for every name (a key, a member of the type, a flag name, an unknown
\* name), protected or not, and changes nothing: neither the mapping nor
\* the flags of any Container.
C13_AttributeAssignRejected ==
    [][ ( last'.op = "setattr" /\ nops' = nops + 1 )
        => ( ret'.exc \in {"AttributeError", "TypeError"} /\ heap' = heap ) ]_vars

\* assignment to an attribute named as an existing key of an unprotected
\* Container was rejected
C13_Witness ==
    /\ last.op = "setattr"
    /\ ret.exc = "AttributeError"
    /\ ~magidict_is_protected(heap, last.self)
    /\ KeyIndex(heap[last.self].items, last.key) # 0

\* C14: on an unprotected Container, pop(k) with k present removes the entry
\* of k alone and returns its value; pop(k, fallback) with k absent returns
\* fallback and changes nothing; pop(k) with k absent raises KeyError.
C14_Pop ==
    [][ ( /\ last'.op = "pop"
          /\ nops' = nops + 1
          /\ ~magidict_is_protected(heap, last'.self) )
        => LET self == last'.self
               i == KeyIndex(heap[self].items, last'.key)
           IN /\ i # 0 => /\ ret' = Returned(heap[self].items[i].v)
                           /\ heap' = PyDict_DelItem(heap, self, last'.key)
              /\ (i = 0 /\ last'.arg # NULL) => (ret' = Returned(last'.arg) /\ heap' = heap)
              /\ (i = 0 /\ last'.arg = NULL) => (ret'.exc = "KeyError" /\ heap' = heap) ]_vars

\* the values C15 describes: depth first, the value of every entry whose key
\* is key, through mappings of either type, lists and tuples
RECURSIVE ClaimedMatches(_, _, _)
RECURSIVE ClaimedMatchesFrom(_, _, _, _)
ClaimedMatchesFrom(h, a, key, i) ==
    IF i > Len(h[a].items) THEN <<>>
    ELSE (IF h[a].items[i].k = key THEN <<h[a].items[i].v>> ELSE <<>>)
         \o ClaimedMatches(h, h[a].items[i].v, key)
         \o ClaimedMatchesFrom(h, a, key, i + 1)
ClaimedMatches(h, v, key) ==
    IF KindOf(h, v) \in {"dict", "magi", "list", "tuple", "namedtuple"}
    THEN ClaimedMatchesFrom(h, v.n, key, 1)
    ELSE <<>>

\* C15: search_keys(key) returns a list; for a Container from which no cycle
\* is reachable the list holds, in depth-first order, the value of every
\* entry whose key equals key at any depth, through nested Containers,
\* plain mappings and sequences, sequences inside sequences included.
C15_SearchKeys ==
    last.op = "search_keys" =>
        /\ ret.exc = ""
        /\ Acyclic(heap, Ref(last.self)) =>
               /\ PyList_Check(heap, ret.val)
               /\ heap[ret.val.n].items = Elems(ClaimedMatches(heap, Ref(last.self), last.key))

\* C16: whenever search_keys(key) returns a list, search_key(key, default)
\* returns its first element if it has one (also when that element is None
\* or is the default itself) and default if it is empty.
C16_SearchKeyFirst ==
    last.op = "search_key" =>
        LET all == magidict_search_keys_recursive(heap, Ref(last.self), last.key, SearchState)
            default_val == IF last.arg = NULL THEN None ELSE last.arg
        IN (~NullTable(heap, last.self) /\ ~SearchEnded(all)) =>
               /\ ret.exc = ""
               /\ all.res # <<>> => ret.val = all.res[1]
               /\ all.res = <<>> => ret.val = default_val

\* C17: __getstate__ of a Container c returns a state whose data is a new
\* plain dict with the entries of c (a shallow copy: c is not the data and
\* is left as it was); importing that state into a freshly constructed
\* empty Container gives a Container with the keys of c, values of the same
\* content and the flags of c.
C17_StateRoundTrip ==
    [][ /\ (last'.op = "getstate" /\ nops' = nops + 1) =>
               LET c == last'.self
                   data == PyDict_GetItem(heap', ret'.val.n, KData)
               IN /\ ret'.exc = ""
                  /\ heap'[c] = heap[c]
                  /\ IsRef(data) /\ data.n \notin Addrs(heap)
                  /\ heap'[data.n].kind = "dict"
                  /\ heap'[data.n].items = heap[c].items
        /\ (last.op = "getstate" /\ ret.exc = "" /\ last'.op = "unpickle" /\ last'.arg = ret.val) =>
               LET c == last.self
               IN /\ ret'.exc = ""
                  /\ heap'[ret'.val.n].kind = "magi"
                  /\ ret'.val.n \notin Addrs(heap)
                  /\ ContentEq(heap', ret'.val, heap, Ref(c))
                  /\ heap'[ret'.val.n].from_none = heap[c].from_none
                  /\ heap'[ret'.val.n].from_missing = heap[c].from_missing ]_vars

\* v is a list of (key, value) pairs with scalar keys
IsPairs(h, v) ==
    /\ PyList_Check(h, v)
    /\ \A i \in 1..Len(h[v.n].items) :
           LET t == h[v.n].items[i].v
           IN PyTuple_Check(h, t) /\ Len(h[t.n].items) = 2 /\ ~IsRef(h[t.n].items[1].v)

\* the entries a list of pairs gives
PairEntries(h, v) ==
    [i \in 1..Len(h[v.n].items) |->
        LET t == h[v.n].items[i].v.n
        IN Entry(ValueAsKey(h[t].items[1].v), h[t].items[2].v)]

\* C18: MagiDict(m) for a plain mapping m, MagiDict(pairs) for a list of
\* (key, value) pairs and MagiDict(b=value) each return a new unprotected
\* Container that holds exactly the given entries, every value hooked: the
\* value under each key has the content of the given value, and no plain
\* mapping is reachable from the Container.
C18_Construction ==
    [][ ( /\ last'.op = "MagiDict"
          /\ nops' = nops + 1
          /\ \/ last'.arg2 = NULL /\ KindOf(heap, last'.arg) = "dict"
             \/ last'.arg2 = NULL /\ last'.arg # NULL /\ IsPairs(heap, last'.arg)
             \/ last'.arg2 # NULL /\ last'.arg = NULL )
        => LET given == IF last'.arg = NULL THEN <<Entry(KB, last'.arg2)>>
                        ELSE IF IsPairs(heap, last'.arg)
                        THEN DictItemsUpdate(<<>>, PairEntries(heap, last'.arg))
                        ELSE heap[last'.arg.n].items
               new == ret'.val.n
           IN /\ ret'.exc = ""
              /\ new \notin Addrs(heap)
              /\ heap'[new].kind = "magi"
              /\ ~magidict_is_protected(heap', new)
              /\ KeySet(heap', new) = {given[i].k : i \in 1..Len(given)}
              /\ \A i \in 1..Len(given) :
                     ContentEq(heap', PyDict_GetItem(heap', new, given[i].k),
                               heap, given[i].v)
              /\ \A a \in ReachFrom(heap', {new}) : heap'[a].kind # "dict" ]_vars

\* the entries C19 describes: those for which the predicate is truthy, the
\* predicate being given the value, or key and value if it declares two
\* parameters, and being "the value is not None" when none is supplied
ClaimedKept(h, self, function) ==
    LET fn == IF function = None THEN NotNone ELSE function
        Keep(e) == PyObject_IsTrue(h, Apply(h, fn, e.k, e.v))
    IN SelectSeq(h[self].items, Keep)

\* C19: filter returns a new unprotected Container whose entries are the
\* receiver's own entries for which the predicate is truthy; the receiver
\* is left as it was, and no error is raised, also when the receiver is
\* protected.
C19_Filter ==
    [][ ( last'.op = "filter" /\ nops' = nops + 1 )
        => LET self == last'.self
               new == ret'.val.n
           IN /\ ret'.exc = ""
              /\ new \notin Addrs(heap)
              /\ heap'[new].kind = "magi"
              /\ ~magidict_is_protected(heap', new)
              /\ heap'[new].items = ClaimedKept(heap, self, last'.arg)
              /\ heap'[self] = heap[self] ]_vars

\* C22: an attribute read that finds a plain mapping stored under the name
\* returns a Container, stores it under the name and changes no other
\* entry of the receiver; reading the same key again, as an attribute, by
\* index or by mget, returns the identical Container.
C22_LazyPromotion ==
    [][ ( /\ last'.op = "getattr" /\ nops' = nops + 1
          /\ KeyIndex(heap[last'.self].items, last'.key) # 0
          /\ KindOf(heap, heap[last'.self].items[KeyIndex(heap[last'.self].items,
                                                          last'.key)].v) = "dict" )
        => LET self == last'.self
               name == last'.key
               i == KeyIndex(heap[self].items, name)
           IN /\ ret'.exc = ""
              /\ IsRef(ret'.val)
              /\ heap'[ret'.val.n].kind = "magi"
              /\ heap'[self].items = [heap[self].items EXCEPT ![i].v = ret'.val]
              /\ magidict_getattro(heap', self, name) = Out(heap', Returned(ret'.val))
              /\ magidict_getitem(heap', self, name) = Out(heap', Returned(ret'.val))
              /\ magidict_mget(heap', self, name, NULL) = Out(heap', Returned(ret'.val)) ]_vars

\* C23: copy.deepcopy(c) returns a new Container with the flags and the
\* content of c; the Container nodes of the copy are all new, one per
\* Container node of c; c is left as it was, and assigning to the copy
\* succeeds and changes nothing that existed before.
C23_DeepCopy ==
    [][ ( last'.op = "deepcopy" /\ nops' = nops + 1 )
        => LET self == last'.self
               new == ret'.val.n
               P == PairClosure(heap, heap', {<<Ref(self), ret'.val>>})
               o == magidict_setitem(heap', new, KA, IntV(1))
           IN /\ ret'.exc = ""
              /\ IsRef(ret'.val)
              /\ new \notin Addrs(heap)
              /\ heap'[new].kind = "magi"
              /\ heap'[new].from_none = heap[self].from_none
              /\ heap'[new].from_missing = heap[self].from_missing
              /\ ContentEq(heap, Ref(self), heap', ret'.val)
              /\ \A p, q \in P :
                     (IsRef(p[1]) /\ heap[p[1].n].kind = "magi")
                     => /\ IsRef(p[2]) /\ p[2].n \notin Addrs(heap)
                        /\ heap'[p[2].n].kind = "magi"
                        /\ (p[1] = q[1]) => (p[2] = q[2])
              /\ \A a \in Addrs(heap) : heap'[a] = heap[a]
              /\ o.r.exc = ""
              /\ \A a \in Addrs(heap) : o.h[a] = heap[a] ]_vars

\* key is a key of no mapping at or below the Container self
OccursNowhere(h, self, key) ==
    \A a \in ReachFrom(h, {self}) :
        h[a].kind \in {"dict", "magi"} => KeyIndex(h[a].items, key) = 0

\* C24: on a Container from which a reference cycle is reachable,
\* search_keys, and search_key for a key that occurs nowhere, end by
\* returning or raising: the call neither recurses without end nor dies.
C24_SearchTerminates ==
    ( /\ last.op \in {"search_keys", "search_key"}
      /\ ~Acyclic(heap, Ref(last.self))
      /\ last.op = "search_key" => OccursNowhere(heap, last.self, last.key) )
    => ret.exc \notin {"NoReturn", "Fault"}

\* self[k] = v for each entry of the sequence entries, in order, up to the
\* first that fails
RECURSIVE ClaimedSetKeys(_, _, _)
ClaimedSetKeys(h, self, entries) ==
    IF entries = <<>> THEN Out(h, Returned(None))
    ELSE LET o == magidict_setitem(h, self, Head(entries).k, Head(entries).v)
         IN IF o.r.exc # "" THEN o ELSE ClaimedSetKeys(o.h, self, Tail(entries))

\* the value of the last entry of entries under key k
FinalValue(entries, k) ==
    entries[CHOOSE i \in 1..Len(entries) :
                /\ entries[i].k = k
                /\ \A j \in (i + 1)..Len(entries) : entries[j].k # k].v

\* C25: on an unprotected Container, update(mapping, **named) ends as the
\* set-keys of the mapping's entries and then of the named arguments end,
\* and leaves the same state; when it completes, a key given a scalar last
\* holds that scalar, two keys given the same plain mapping hold two
\* distinct Containers, and the entries under other keys are unchanged.
C25_UpdateAsSetKeys ==
    [][ ( /\ last'.op = "update" /\ nops' = nops + 1
          /\ ~magidict_is_protected(heap, last'.self)
          /\ last'.arg = NULL \/ PyDict_Check(heap, last'.arg) )
        => LET self == last'.self
               entries == (IF last'.arg = NULL THEN <<>> ELSE heap[last'.arg.n].items)
                          \o (IF last'.arg2 = NULL THEN <<>>
                              ELSE <<Entry(KB, last'.arg2)>>)
               given == {entries[i].k : i \in 1..Len(entries)}
               ref == ClaimedSetKeys(heap, self, entries)
               new == heap'[self].items
               At(k) == new[KeyIndex(new, k)].v
           IN /\ ret'.exc = ref.r.exc
              /\ ret'.exc = "" =>
                    /\ ret'.val = None
                    /\ heap' = ref.h
                    /\ \A k \in given :
                           /\ KeyIndex(new, k) # 0
                           /\ ~IsRef(FinalValue(entries, k)) => At(k) = FinalValue(entries, k)
                    /\ \A k1, k2 \in given :
                           ( /\ k1 # k2
                             /\ FinalValue(entries, k1) = FinalValue(entries, k2)
                             /\ KindOf(heap, FinalValue(entries, k1)) = "dict" )
                           => /\ At(k1) # At(k2)
                              /\ IsMagi(heap', At(k1)) /\ IsMagi(heap', At(k2))
                    /\ \A i \in 1..Len(heap[self].items) :
                           heap[self].items[i].k \notin given
                           => /\ KeyIndex(new, heap[self].items[i].k) # 0
                              /\ At(heap[self].items[i].k) = heap[self].items[i].v
                    /\ \A i \in 1..Len(new) :
                           new[i].k \in given
                           \/ KeyIndex(heap[self].items, new[i].k) # 0 ]_vars

(***************************************************************************)
(* Properties of the conversions (specification SpecConv).  x is the       *)
(* source object converted (last.arg) and Hooked its converted value.      *)
(***************************************************************************)
\* the keys under which the mapping m of h holds itself
SelfKeys(h, m) == {h[m].items[i].k : i \in {j \in 1..Len(h[m].items) : h[m].items[j].v = Ref(m)}}

\* x is a plain mapping that contains itself as a value
HoldsItself(h, x) == IsRef(x) /\ h[x.n].kind = "dict" /\ SelfKeys(h, x.n) # {}

\* C4: hooking a plain mapping m that holds itself, by MagiDict(m) or by
\* holder[k] = m, terminates normally, and the Container converted from m
\* holds itself under every key under which m held itself.
C4_SelfCycleHook ==
    ( last.op \in {"MagiDict", "setitem"} /\ HoldsItself(origin, last.arg) )
    => /\ ret.exc = ""
       /\ IsRef(Hooked)
       /\ heap[Hooked.n].kind = "magi"
       /\ \A k \in SelfKeys(origin, last.arg.n) :
              KeyIndex(heap[Hooked.n].items, k) # 0
              /\ heap[Hooked.n].items[KeyIndex(heap[Hooked.n].items, k)].v = Hooked

\* the positions of h, below x, that hold the mapping d
PositionsOf(h, x, d) ==
    {<<a, i>> \in ReachFrom(h, {x.n}) \X (1..MaxItems + 1) :
        i <= Len(h[a].items) /\ h[a].items[i].v = Ref(d)}

\* some plain mapping is held at two positions below x
HasSharedMapping(h, x) ==
    \E d \in ReachFrom(h, {x.n}) :
        h[d].kind = "dict" /\ Cardinality(PositionsOf(h, x, d)) >= 2

\* C5: one hook traversal of a structure in which a plain mapping is
\* reachable by two paths completes, makes exactly one Container per plain
\* mapping, and every position that held the same mapping holds the same
\* Container.
C5_SharedConvertedOnce ==
    ( last.op \in {"MagiDict", "setitem"} /\ HasSharedMapping(origin, last.arg) )
    => /\ ret.exc = ""
       /\ LET P == PairClosure(origin, heap, {<<last.arg, Hooked>>})
              plain == {a \in ReachFrom(origin, {last.arg.n}) : origin[a].kind = "dict"}
              made == {a \in Addrs(heap) : a > Holder /\ heap[a].kind = "magi"}
          IN /\ \A a \in ReachFrom(origin, {last.arg.n}) : \E p \in P : p[1] = Ref(a)
             /\ \A p, q \in P :
                    (p[1] = q[1] /\ IsRef(p[1]) /\ origin[p[1].n].kind = "dict")
                    => (p[2] = q[2] /\ IsRef(p[2]) /\ heap[p[2].n].kind = "magi")
             /\ Cardinality(made) = Cardinality(plain)

\* some tuple is held at two positions below x
HasSharedTuple(h, x) ==
    \E d \in ReachFrom(h, {x.n}) :
        h[d].kind = "tuple" /\ Cardinality(PositionsOf(h, x, d)) >= 2

\* C20: when one hook traversal of a structure in which a tuple is
\* reachable by two paths completes, every position that held the same
\* tuple holds the same converted tuple, and at most one tuple was made per
\* tuple of the source.
C20_SharedTupleConvertedOnce ==
    ( last.op \in {"MagiDict", "setitem"} /\ ret.exc = ""
      /\ HasSharedTuple(origin, last.arg) )
    => LET P == PairClosure(origin, heap, {<<last.arg, Hooked>>})
           tuples == {a \in ReachFrom(origin, {last.arg.n}) : origin[a].kind = "tuple"}
           made == {a \in Addrs(heap) : a > Holder /\ heap[a].kind = "tuple"}
       IN /\ \A p, q \in P :
                 (p[1] = q[1] /\ IsRef(p[1]) /\ origin[p[1].n].kind = "tuple")
                 => (p[2] = q[2] /\ IsRef(p[2]) /\ heap[p[2].n].kind = "tuple")
          /\ Cardinality(made) <= Cardinality(tuples)

\* C21: when hooking a structure completes, every named tuple below the
\* source has become a value of the same named-tuple type, with as many
\* elements.
C21_NamedTupleKept ==
    ( last.op \in {"MagiDict", "setitem"} /\ ret.exc = "" )
    => \A p \in PairClosure(origin, heap, {<<last.arg, Hooked>>}) :
           (IsRef(p[1]) /\ origin[p[1].n].kind = "namedtuple")
           => /\ IsRef(p[2])
              /\ heap[p[2].n].kind = "namedtuple"
              /\ Len(heap[p[2].n].items) = Len(origin[p[1].n].items)

\* C6: for an acyclic plain structure x, hook(x) and then disenchant
\* complete, the result has the content of x, and no Container is reachable
\* from the result.
C6_RoundTrip ==
    /\ (last.op \in {"MagiDict", "setitem"} /\ Acyclic(origin, last.arg)) => ret.exc = ""
    /\ (last.op = "disenchant" /\ Acyclic(origin, last.arg)) =>
           /\ ret.exc = ""
           /\ IsRef(ret.val)
           /\ LET res == IF last.self = Holder
                         THEN PyDict_GetItem(heap, ret.val.n, KA)
                         ELSE ret.val
              IN ContentEq(heap, res, origin, last.arg)
           /\ \A a \in ReachFrom(heap, {ret.val.n}) : heap[a].kind # "magi"

\* C7: hook(x) completes for every plain structure x; hooking its result
\* again completes with a value of the same content, and a value that is a
\* Container already comes back as the same object, nothing on the heap
\* being changed but the entry it is stored under.
C7_HookIdempotent ==
    [][ /\ (last'.op \in {"MagiDict", "setitem"} /\ last.op = "source") => ret'.exc = ""
        /\ last'.op = "rehook" =>
               ret'.exc = "" /\ ContentEq(heap', ret'.val, heap, last'.arg)
        /\ last'.op = "restore" =>
               /\ ret'.exc = ""
               /\ ContentEq(heap', PyDict_GetItem(heap', Holder, KB), heap, last'.arg)
               /\ heap[last'.arg.n].kind = "magi" =>
                      heap' = PyDict_SetItem(heap, Holder, KB, last'.arg)
        /\ (last'.op = "enchant" /\ heap[last'.arg.n].kind = "magi") =>
               (ret' = Returned(last'.arg) /\ heap' = heap) ]_vars

====
